---- MODULE Spec2Model ----
(***************************************************************************)
(* The prepare-commit-msg hook add-jira-to-commit-body.py.                 *)
(*                                                                         *)
(* A Python str is a sequence of one-character strings; offsets into a     *)
(* str are 0-based as in the code.  An Optional value is None (the empty   *)
(* tuple) or Some(v) (the one-element tuple <<v>>).                        *)
(*                                                                         *)
(* Three specifications share the variables:                               *)
(*   Spec          one run of main(), step by step;                        *)
(*   SpecEditor    successive calls of _add_ticket_to_commit;              *)
(*   SpecResolver  one call of _get_ticket_from_branch.                    *)
(***************************************************************************)
EXTENDS Integers, Sequences, FiniteSets

VARIABLES
    pc,             \* position in main(), or in the call being modelled
    argv,           \* sys.argv
    file,           \* content of the commit-message file on disk
    orig_file,      \* history: content of the file when the hook started
    git_result,     \* outcome of running `git rev-parse --abbrev-ref HEAD`
    commit_source,  \* main: commit_source
    branch,         \* main: branch
    labels,         \* _get_ticket_from_branch: labels
    ticket,         \* main: ticket
    commit_content, \* main: commit_content
    out_content,    \* main: out_content
    exit_code,      \* exit status of the hook process, None while it runs
    reads,          \* history: number of reads of the file so far
    writes,         \* history: number of writes of the file so far
    editor_calls,   \* history: number of calls of _add_ticket_to_commit so far
    first_content,  \* history: commit_content of the first editor call
    first_out       \* history: result of the first editor call

vars == <<pc, argv, file, orig_file, git_result, commit_source, branch, labels,
          ticket, commit_content, out_content, exit_code, reads, writes,
          editor_calls, first_content, first_out>>

-----------------------------------------------------------------------------
(* Optional values *)

None == <<>>

Some(v) == <<v>>

Val(o) == o[1]

-----------------------------------------------------------------------------
(* Bounds of the input sets *)

\* contents given to the editor are made of at most MaxChunks chunks
MaxChunks == 4

\* the commit-message file of a hook run is made of at most MaxFileChunks chunks
MaxFileChunks == 3

\* branch names given to the resolver are made of at most MaxBranchChunks chunks
MaxBranchChunks == 4

\* successive editor calls on the same content
MaxRuns == 2

-----------------------------------------------------------------------------
(* Program constants *)

FOO == <<"F", "O", "O">>

BAR == <<"B", "A", "R">>

TICKET_LABELS == <<FOO, BAR>>

TICKET_PREFIX == <<"T", "i", "c", "k", "e", "t", ":", " ">>

SUPPORTED_SOURCES == {None, Some("message"), Some("template"), Some("commit")}

AVAILABLE_SOURCES ==
    {None, Some("message"), Some("template"), Some("merge"), Some("squash"),
     Some("commit")}

-----------------------------------------------------------------------------
(* str operations *)

\* s[i:j] for 0 <= i <= j <= len(s)
Slice(s, i, j) == SubSeq(s, i + 1, j)

\* sub in s
Contains(s, sub) ==
    \E i \in 0..(Len(s) - Len(sub)) : Slice(s, i, i + Len(sub)) = sub

IsDigit(c) == c \in {"0", "1", "2", "3", "4", "5", "6", "7", "8", "9"}

-----------------------------------------------------------------------------
(* The part of Python's re module the hook uses.  A compiled pattern is a  *)
(* sequence of atoms; the hook's two patterns are "^#" (with re.MULTILINE) *)
(* and re.escape(label) + "-[0-9]+".                                       *)

Lit(c) == [kind |-> "lit", ch |-> c]

AnyChar == [kind |-> "any", ch |-> ""]

LineStart == [kind |-> "bol", ch |-> ""]

DigitsPlus == [kind |-> "digits+", ch |-> ""]

\* the characters re.escape puts a backslash before
SpecialChars ==
    {"(", ")", "[", "]", "{", "}", "?", "*", "+", "-", "|", "^", "$", "\\",
     ".", "&", "~", "#", " ", "\t", "\n", "\r", "\f"}

\* re.escape(s)
RECURSIVE re_escape(_)
re_escape(s) ==
    IF s = <<>> THEN <<>>
    ELSE (IF Head(s) \in SpecialChars THEN <<"\\", Head(s)>> ELSE <<Head(s)>>)
         \o re_escape(Tail(s))

DigitClass == <<"[", "0", "-", "9", "]", "+">>

\* re.compile(p), for the syntax the hook's patterns use: \c, ., ^, [0-9]+
\* and plain characters
RECURSIVE re_compile(_)
re_compile(p) ==
    IF p = <<>> THEN <<>>
    ELSE IF Head(p) = "\\" /\ Len(p) >= 2
    THEN <<Lit(p[2])>> \o re_compile(Slice(p, 2, Len(p)))
    ELSE IF Len(p) >= 6 /\ Slice(p, 0, 6) = DigitClass
    THEN <<DigitsPlus>> \o re_compile(Slice(p, 6, Len(p)))
    ELSE IF Head(p) = "."
    THEN <<AnyChar>> \o re_compile(Tail(p))
    ELSE IF Head(p) = "^"
    THEN <<LineStart>> \o re_compile(Tail(p))
    ELSE <<Lit(Head(p))>> \o re_compile(Tail(p))

\* offset of the end of the longest run of digits of s that starts at pos
RECURSIVE DigitsEnd(_, _)
DigitsEnd(s, pos) ==
    IF pos < Len(s) /\ IsDigit(s[pos + 1]) THEN DigitsEnd(s, pos + 1) ELSE pos

\* the end offset of the match of atoms[n..] at offset pos of s, or -1.
\* [0-9]+ is greedy; in the hook's pattern nothing follows it, so the
\* longest run is the match.
RECURSIVE MatchFrom(_, _, _, _, _)
MatchFrom(atoms, s, pos, n, multiline) ==
    IF n > Len(atoms) THEN pos
    ELSE LET atom == atoms[n] IN
         IF atom.kind = "bol"
         THEN IF pos = 0 \/ (multiline /\ s[pos] = "\n")
              THEN MatchFrom(atoms, s, pos, n + 1, multiline)
              ELSE -1
         ELSE IF atom.kind = "digits+"
         THEN IF DigitsEnd(s, pos) = pos
              THEN -1
              ELSE MatchFrom(atoms, s, DigitsEnd(s, pos), n + 1, multiline)
         ELSE IF pos < Len(s)
                 /\ \/ atom.kind = "lit" /\ s[pos + 1] = atom.ch
                    \/ atom.kind = "any" /\ s[pos + 1] # "\n"
         THEN MatchFrom(atoms, s, pos + 1, n + 1, multiline)
         ELSE -1

\* the scan of re.search: the match at the smallest start offset >= start
RECURSIVE SearchFrom(_, _, _, _)
SearchFrom(atoms, s, start, multiline) ==
    IF start > Len(s) THEN None
    ELSE IF MatchFrom(atoms, s, start, 1, multiline) >= 0
    THEN Some(<<start, MatchFrom(atoms, s, start, 1, multiline)>>)
    ELSE SearchFrom(atoms, s, start + 1, multiline)

\* re.search(pattern, s, flags): None, or Some(match.span(0))
re_search(pattern, s, multiline) ==
    SearchFrom(re_compile(pattern), s, 0, multiline)

-----------------------------------------------------------------------------
(* The hook's functions *)

\* TicketPattern without re.escape: f"{label}-[0-9]+"
TicketPattern_unescaped(label) == label \o <<"-">> \o DigitClass

\* f"{re.escape(label)}-[0-9]+"
TicketPattern(label) == re_escape(label) \o <<"-">> \o DigitClass

RECURSIVE TicketFromLabels(_, _, _)
TicketFromLabels(branch_name, label_seq, n) ==
    IF n > Len(label_seq) THEN None
    ELSE LET match == re_search(TicketPattern(label_seq[n]), branch_name, FALSE)
         IN  IF match # None
             THEN Some(Slice(branch_name, Val(match)[1], Val(match)[2]))
             ELSE TicketFromLabels(branch_name, label_seq, n + 1)

_get_ticket_from_branch(branch_name, label_seq) ==
    TicketFromLabels(branch_name, label_seq, 1)

\* _add_ticket_details searching "^#" without re.MULTILINE
_add_ticket_details_not_multiline(content, ticket_string, source) ==
    LET comment_start == re_search(<<"^", "#">>, content, FALSE)
    IN  IF comment_start # None
        THEN LET comment_location == Val(comment_start)[1]
                 ticket_block ==
                     <<"\n">> \o ticket_string \o <<"\n">>
                     \o (IF source = None THEN <<"\n">> ELSE <<>>)
             IN  Slice(content, 0, comment_location) \o ticket_block
                 \o Slice(content, comment_location, Len(content))
        ELSE content \o <<"\n">> \o ticket_string \o <<"\n">>

\* _add_ticket_details searching "#" anywhere, not only at the start of a line
_add_ticket_details_unanchored(content, ticket_string, source) ==
    LET comment_start == re_search(<<"#">>, content, TRUE)
    IN  IF comment_start # None
        THEN LET comment_location == Val(comment_start)[1]
                 ticket_block ==
                     <<"\n">> \o ticket_string \o <<"\n">>
                     \o (IF source = None THEN <<"\n">> ELSE <<>>)
             IN  Slice(content, 0, comment_location) \o ticket_block
                 \o Slice(content, comment_location, Len(content))
        ELSE content \o <<"\n">> \o ticket_string \o <<"\n">>

_add_ticket_details(content, ticket_string, source) ==
    LET comment_start == re_search(<<"^", "#">>, content, TRUE)
    IN  IF comment_start # None
        THEN LET comment_location == Val(comment_start)[1]
                 commit_text == Slice(content, 0, comment_location)
                 commit_comments == Slice(content, comment_location, Len(content))
                 ticket_block ==
                     <<"\n">> \o ticket_string \o <<"\n">>
                     \o (IF source = None THEN <<"\n">> ELSE <<>>)
             IN  commit_text \o ticket_block \o commit_comments
        ELSE content \o <<"\n">> \o ticket_string \o <<"\n">>

\* _add_ticket_to_commit inserting for every source of SUPPORTED_SOURCES
_add_ticket_to_commit_supported(tkt, source, content) ==
    LET ticket_string == TICKET_PREFIX \o tkt
    IN  IF Contains(content, ticket_string)
        THEN None
        ELSE IF source \in SUPPORTED_SOURCES
        THEN Some(_add_ticket_details(content, ticket_string, source))
        ELSE None

\* _add_ticket_to_commit looking for the ticket line only at the end of the
\* content
_add_ticket_to_commit_endswith(tkt, source, content) ==
    LET ticket_string == TICKET_PREFIX \o tkt \o <<"\n">>
        n == Len(ticket_string)
    IN  IF Len(content) >= n /\ Slice(content, Len(content) - n, Len(content)) = ticket_string
        THEN None
        ELSE IF source = None \/ source \in {Some("message"), Some("commit")}
        THEN Some(_add_ticket_details(content, TICKET_PREFIX \o tkt, source))
        ELSE None

\* _add_ticket_to_commit without the check for an existing ticket line
_add_ticket_to_commit_unchecked(tkt, source, content) ==
    IF source = None \/ source \in {Some("message"), Some("commit")}
    THEN Some(_add_ticket_details(content, TICKET_PREFIX \o tkt, source))
    ELSE None

_add_ticket_to_commit(tkt, source, content) ==
    LET ticket_string == TICKET_PREFIX \o tkt
    IN  IF Contains(content, ticket_string)
        THEN None
        ELSE IF source = None \/ source \in {Some("message"), Some("commit")}
        THEN Some(_add_ticket_details(content, ticket_string, source))
        ELSE None

\* _get_branch(), given what running git did
_get_branch(result) ==
    IF result.kind = "oserror" THEN None
    ELSE IF result.returncode # 0 THEN None
    ELSE Some(result.stdout)

\* ParseSource taking the source whenever argument 2 is there
ParseSource_any_length(args) ==
    IF Len(args) >= 3 THEN Some(args[3]) ELSE None

\* main, lines 47-51
ParseSource(args) ==
    IF Len(args) = 4 THEN Some(args[3]) ELSE None

-----------------------------------------------------------------------------
(* Input sets *)

RECURSIVE Cat(_)
Cat(chunks) == IF chunks = <<>> THEN <<>> ELSE Head(chunks) \o Cat(Tail(chunks))

ChunkSeqs(chunks, n) == UNION {[1..m -> chunks] : m \in 0..n}

\* pieces of a commit message: text, a comment marker, a line end, a ticket
\* line for FOO-1, and a digit that turns FOO-1 into FOO-12
ContentChunks ==
    {<<"a">>, <<"#">>, <<"\n">>, TICKET_PREFIX \o FOO \o <<"-", "1">>, <<"2">>}

Contents == {Cat(cs) : cs \in ChunkSeqs(ContentChunks, MaxChunks)}

FileContents == {Cat(cs) : cs \in ChunkSeqs(ContentChunks, MaxFileChunks)}

Tickets ==
    {FOO \o <<"-", "1">>, FOO \o <<"-", "1", "2">>, BAR \o <<"-", "2">>}

\* a label with a character that is special in a pattern
FDOTO == <<"F", ".", "O">>

BranchChunks ==
    {FOO \o <<"-">>, BAR \o <<"-">>, FDOTO \o <<"-">>, FOO, <<"1">>, <<"2">>,
     <<"/">>}

BranchNames == {Cat(cs) : cs \in ChunkSeqs(BranchChunks, MaxBranchChunks)}

LabelOrders == {TICKET_LABELS, <<BAR, FOO>>, <<FOO>>, <<FDOTO, BAR>>, <<>>}

\* what git prints for the branches of a hook run, without the line end
HookBranches ==
    {FOO \o <<"-", "1", "/", "x">>,
     <<"f", "/">> \o FOO \o <<"-", "1", "2">>,
     <<"x", "-">> \o BAR \o <<"-", "2">>,
     FOO \o <<"/">> \o BAR \o <<"-", "2">>,
     <<"r", "e", "l", "e", "a", "s", "e", "-", "b", "r", "a", "n", "c", "h">>}

\* the outcomes of Popen and communicate in _get_branch: git cannot be
\* started, git exits non-zero, git prints the branch name and exits 0
GitResults ==
    {[kind |-> "oserror", returncode |-> -1, stdout |-> <<>>],
     [kind |-> "exited", returncode |-> 128, stdout |-> <<>>]}
    \cup {[kind |-> "exited", returncode |-> 0, stdout |-> b \o <<"\n">>] :
            b \in HookBranches}

\* the argument lists git passes: file; file, source; file, source, commit id
Argvs ==
    {<<"hook", "COMMIT_EDITMSG">>}
    \cup {<<"hook", "COMMIT_EDITMSG", Val(src)>> : src \in AVAILABLE_SOURCES \ {None}}
    \cup {<<"hook", "COMMIT_EDITMSG", Val(src), "sha">> :
            src \in AVAILABLE_SOURCES \ {None}}

-----------------------------------------------------------------------------
(* main(), one run of the hook *)

Init ==
    /\ pc = "main"
    /\ argv \in Argvs
    /\ file \in FileContents
    /\ orig_file = file
    /\ git_result \in GitResults
    /\ commit_source = None
    /\ branch = None
    /\ labels = TICKET_LABELS
    /\ ticket = None
    /\ commit_content = None
    /\ out_content = None
    /\ exit_code = None
    /\ reads = 0
    /\ writes = 0
    /\ editor_calls = 0
    /\ first_content = None
    /\ first_out = None

\* lines 45-51
ParseArgs ==
    /\ pc = "main"
    /\ commit_source' = ParseSource(argv)
    /\ pc' = "check_source"
    /\ UNCHANGED <<argv, file, orig_file, git_result, branch, labels, ticket,
                   commit_content, out_content, exit_code, reads, writes,
                   editor_calls, first_content, first_out>>

\* line 53
CheckSource ==
    /\ pc = "check_source"
    /\ pc' = IF commit_source \in SUPPORTED_SOURCES THEN "get_branch" ELSE "return"
    /\ UNCHANGED <<argv, file, orig_file, git_result, commit_source, branch,
                   labels, ticket, commit_content, out_content, exit_code,
                   reads, writes, editor_calls, first_content, first_out>>

\* lines 54-55
GetBranch ==
    /\ pc = "get_branch"
    /\ branch' = _get_branch(git_result)
    /\ pc' = IF branch' # None THEN "get_ticket" ELSE "return"
    /\ UNCHANGED <<argv, file, orig_file, git_result, commit_source, labels,
                   ticket, commit_content, out_content, exit_code, reads,
                   writes, editor_calls, first_content, first_out>>

\* lines 56-57
GetTicket ==
    /\ pc = "get_ticket"
    /\ ticket' = _get_ticket_from_branch(Val(branch), TICKET_LABELS)
    /\ pc' = IF ticket' # None THEN "read" ELSE "return"
    /\ UNCHANGED <<argv, file, orig_file, git_result, commit_source, branch,
                   labels, commit_content, out_content, exit_code, reads,
                   writes, editor_calls, first_content, first_out>>

\* lines 58-59
ReadFile ==
    /\ pc = "read"
    /\ commit_content' = Some(file)
    /\ reads' = reads + 1
    /\ pc' = "edit"
    /\ UNCHANGED <<argv, file, orig_file, git_result, commit_source, branch,
                   labels, ticket, out_content, exit_code, editor_calls,
                   writes, first_content, first_out>>

\* lines 58-59 when open() or read() raises (the file cannot be opened, or
\* its bytes are not text in the locale's encoding): nothing in main or at
\* line 143 catches the exception and the interpreter exits with status 1
ReadFileRaises ==
    /\ pc = "read"
    /\ exit_code' = Some(1)
    /\ pc' = "exited"
    /\ UNCHANGED <<argv, file, orig_file, git_result, commit_source, branch,
                   labels, ticket, commit_content, out_content, reads, writes,
                   editor_calls, first_content, first_out>>

\* lines 60-63
Edit ==
    /\ pc = "edit"
    /\ out_content' =
           _add_ticket_to_commit(Val(ticket), commit_source, Val(commit_content))
    /\ editor_calls' = editor_calls + 1
    /\ pc' = IF out_content' # None THEN "write" ELSE "return"
    /\ UNCHANGED <<argv, file, orig_file, git_result, commit_source, branch,
                   labels, ticket, commit_content, exit_code, reads, writes,
                   first_content, first_out>>

\* lines 64-65
WriteFile ==
    /\ pc = "write"
    /\ file' = Val(out_content)
    /\ writes' = writes + 1
    /\ pc' = "return"
    /\ UNCHANGED <<argv, orig_file, git_result, commit_source, branch, labels,
                   ticket, commit_content, out_content, exit_code, reads,
                   editor_calls, first_content, first_out>>

\* line 64 when open() for writing raises (the file is not writable): the
\* file is as it was and the interpreter exits with status 1
WriteFileRaises ==
    /\ pc = "write"
    /\ exit_code' = Some(1)
    /\ pc' = "exited"
    /\ UNCHANGED <<argv, file, orig_file, git_result, commit_source, branch,
                   labels, ticket, commit_content, out_content, reads, writes,
                   editor_calls, first_content, first_out>>

\* lines 67 and 143
Return ==
    /\ pc = "return"
    /\ exit_code' = Some(0)
    /\ pc' = "exited"
    /\ UNCHANGED <<argv, file, orig_file, git_result, commit_source, branch,
                   labels, ticket, commit_content, out_content, reads, writes,
                   editor_calls, first_content, first_out>>

Next ==
    \/ ParseArgs
    \/ CheckSource
    \/ GetBranch
    \/ GetTicket
    \/ ReadFile
    \/ ReadFileRaises
    \/ Edit
    \/ WriteFile
    \/ WriteFileRaises
    \/ Return

Spec == Init /\ [][Next]_vars

-----------------------------------------------------------------------------
(* Successive calls of _add_ticket_to_commit with one ticket: each call    *)
(* gets the content the previous call left (its result, or its input when  *)
(* it returned None).                                                      *)

\* the content after a call with input content and result out
ContentAfter(content, out) == IF out = None THEN content ELSE Val(out)

InitEditor ==
    /\ pc = "editor"
    /\ ticket \in {Some(t) : t \in Tickets}
    /\ commit_content \in {Some(c) : c \in Contents}
    /\ commit_source = None
    /\ out_content = None
    /\ editor_calls = 0
    /\ first_content = None
    /\ first_out = None
    /\ argv = <<>>
    /\ file = <<>>
    /\ orig_file = <<>>
    /\ git_result = [kind |-> "oserror", returncode |-> -1, stdout |-> <<>>]
    /\ branch = None
    /\ labels = TICKET_LABELS
    /\ exit_code = None
    /\ reads = 0
    /\ writes = 0

EditorFirstCall ==
    /\ pc = "editor"
    /\ editor_calls = 0
    /\ \E src \in AVAILABLE_SOURCES :
          /\ commit_source' = src
          /\ out_content' =
                 _add_ticket_to_commit(Val(ticket), src, Val(commit_content))
    /\ first_content' = commit_content
    /\ first_out' = out_content'
    /\ editor_calls' = 1
    /\ UNCHANGED <<pc, argv, file, orig_file, git_result, branch, labels,
                   ticket, commit_content, exit_code, reads, writes>>

EditorNextCall ==
    /\ pc = "editor"
    /\ editor_calls >= 1
    /\ editor_calls < MaxRuns
    /\ commit_content' = Some(ContentAfter(Val(commit_content), out_content))
    /\ \E src \in AVAILABLE_SOURCES :
          /\ commit_source' = src
          /\ out_content' =
                 _add_ticket_to_commit(Val(ticket), src, Val(commit_content'))
    /\ editor_calls' = editor_calls + 1
    /\ UNCHANGED <<pc, argv, file, orig_file, git_result, branch, labels,
                   ticket, exit_code, reads, writes, first_content, first_out>>

NextEditor == EditorFirstCall \/ EditorNextCall

SpecEditor == InitEditor /\ [][NextEditor]_vars

-----------------------------------------------------------------------------
(* One call of _get_ticket_from_branch *)

InitResolver ==
    /\ pc = "resolver"
    /\ branch \in {Some(b) : b \in BranchNames}
    /\ labels \in LabelOrders
    /\ ticket = None
    /\ commit_content = None
    /\ commit_source = None
    /\ out_content = None
    /\ editor_calls = 0
    /\ first_content = None
    /\ first_out = None
    /\ argv = <<>>
    /\ file = <<>>
    /\ orig_file = <<>>
    /\ git_result = [kind |-> "oserror", returncode |-> -1, stdout |-> <<>>]
    /\ exit_code = None
    /\ reads = 0
    /\ writes = 0

Resolve ==
    /\ pc = "resolver"
    /\ ticket' = _get_ticket_from_branch(Val(branch), labels)
    /\ pc' = "resolved"
    /\ UNCHANGED <<argv, file, orig_file, git_result, commit_source, branch,
                   labels, commit_content, out_content, exit_code, reads,
                   writes, editor_calls, first_content, first_out>>

NextResolver == Resolve

SpecResolver == InitResolver /\ [][NextResolver]_vars

-----------------------------------------------------------------------------
(* Vocabulary of the properties, stated without the hook's functions *)

\* a line beginning with # starts at offset k of s
CommentLineAt(s, k) ==
    /\ k < Len(s)
    /\ s[k + 1] = "#"
    /\ k = 0 \/ s[k] = "\n"

CommentOffsets(s) == {k \in 0..Len(s) : CommentLineAt(s, k)}

HasCommentLine(s) == CommentOffsets(s) # {}

FirstCommentOffset(s) ==
    CHOOSE k \in CommentOffsets(s) : \A j \in CommentOffsets(s) : k <= j

\* the offsets at which sub occurs in s
Occurrences(s, sub) ==
    {i \in 0..(Len(s) - Len(sub)) : Slice(s, i, i + Len(sub)) = sub}

\* line is a whole line of s, starting at offset i
WholeLineAt(s, line, i) ==
    /\ i \in Occurrences(s, line)
    /\ i = 0 \/ s[i] = "\n"
    /\ i + Len(line) = Len(s) \/ s[i + Len(line) + 1] = "\n"

\* the last line of s that is not empty (<<>> when there is none)
LastNonEmptyLine(s) ==
    LET ends == {j \in 1..Len(s) : s[j] # "\n" /\ (j = Len(s) \/ s[j + 1] = "\n")}
    IN  IF ends = {} THEN <<>>
        ELSE LET e == CHOOSE j \in ends : \A m \in ends : m <= j
                 starts == {i \in 1..e : \A m \in i..e : s[m] # "\n"}
                 b == CHOOSE i \in starts : \A m \in starts : i <= m
             IN  SubSeq(s, b, e)

\* label, "-" and a digit occur at offset i of b
LabelOccursAt(b, label, i) ==
    /\ i + Len(label) + 1 < Len(b)
    /\ Slice(b, i, i + Len(label)) = label
    /\ b[i + Len(label) + 1] = "-"
    /\ IsDigit(b[i + Len(label) + 2])

LabelOccurs(b, label) == \E i \in 0..Len(b) : LabelOccursAt(b, label, i)

\* b[i:j] is label, "-" and all the digits that follow
TicketSpan(b, label, i, j) ==
    /\ LabelOccursAt(b, label, i)
    /\ j > i + Len(label) + 1
    /\ j <= Len(b)
    /\ \A m \in (i + Len(label) + 2)..j : IsDigit(b[m])
    /\ j = Len(b) \/ ~IsDigit(b[j + 1])

\* the sources for which the editor inserts
EligibleSources == {None, Some("message"), Some("commit")}

\* the target line of the ticket in the state
TargetLine == TICKET_PREFIX \o Val(ticket)

\* git printed a branch name with a ticket of a configured label
BranchResolves ==
    /\ git_result.kind = "exited"
    /\ git_result.returncode = 0
    /\ \E n \in 1..Len(TICKET_LABELS) : LabelOccurs(git_result.stdout, TICKET_LABELS[n])

-----------------------------------------------------------------------------
(* Properties of a hook run (Spec) *)

\* C1: every run of the hook ends with exit code 0, whatever the arguments,
\* the outcome of resolving the branch, the branch name and the outcome of
\* reading and writing the commit-message file.
C1_ExitCodeAlwaysZero ==
    pc = "exited" => exit_code = Some(0)

\* C2: the commit source is argument 2 whenever argument 2 is present and is
\* absent only when argument 2 is missing; so a run with argument 2 "merge"
\* or "squash" on a branch that resolves to a ticket leaves the file as it was.
C2_SourceIsArgument2 ==
    /\ pc # "main" =>
           commit_source = (IF Len(argv) >= 3 THEN Some(argv[3]) ELSE None)
    /\ (/\ pc = "exited"
        /\ Len(argv) >= 3
        /\ argv[3] \in {"merge", "squash"}
        /\ BranchResolves)
       => file = orig_file

\* the run of `git merge --message <subject>`: file and "merge", no third
\* argument, on a branch with a ticket, no line of the file begins with #,
\* and the hook exited 0 so that the merge commit is created
MergeMessageRun ==
    /\ pc = "exited"
    /\ exit_code = Some(0)
    /\ Len(argv) = 3
    /\ argv[3] = "merge"
    /\ BranchResolves
    /\ ~HasCommentLine(orig_file)

-----------------------------------------------------------------------------
(* Properties of the Commit Body Editor (SpecEditor) *)

C5_Idempotence ==
    (/\ editor_calls >= 2
     /\ first_out # None \/ Contains(Val(first_content), TargetLine))
    => /\ out_content = None
       /\ Val(commit_content) = ContentAfter(Val(first_content), first_out)
       /\ Cardinality(Occurrences(Val(commit_content), TargetLine))
              <= Cardinality(Occurrences(Val(first_content), TargetLine)) + 1

C5_Witness ==
    /\ editor_calls = 2
    /\ first_out # None
    /\ HasCommentLine(Val(first_content))
    /\ commit_source = Some("message")
    /\ out_content = None

\* C7: when a line of the content begins with #, the first at offset k, the
\* updated content is content[0:k], "\n", the target line, "\n", one more
\* "\n" exactly when the source is absent, and content[k:]; the lines
\* beginning with # are those of the content, all after the ticket block.
C7_PlacementBeforeCommentBlock ==
    (/\ editor_calls >= 1
     /\ out_content # None
     /\ HasCommentLine(Val(commit_content)))
    => LET c == Val(commit_content)
           out == Val(out_content)
           k == FirstCommentOffset(c)
           block == <<"\n">> \o TargetLine \o <<"\n">>
                    \o (IF commit_source = None THEN <<"\n">> ELSE <<>>)
       IN  /\ out = Slice(c, 0, k) \o block \o Slice(c, k, Len(c))
           /\ Len(out) = Len(c) + Len(TargetLine) + 2
                         + (IF commit_source = None THEN 1 ELSE 0)
           /\ Slice(out, 0, k) = Slice(c, 0, k)
           /\ Slice(out, k + Len(block), Len(out)) = Slice(c, k, Len(c))
           /\ CommentOffsets(out) = {j + Len(block) : j \in CommentOffsets(c)}

C7_Witness ==
    /\ editor_calls >= 1
    /\ commit_source = None
    /\ commit_content = Some(<<"a", "\n", "#", "a">>)
    /\ out_content =
           Some(<<"a", "\n", "\n">> \o TargetLine \o <<"\n", "\n", "#", "a">>)

\* C8: when no line of the content begins with #, the updated content is
\* the content, "\n", the target line and "\n", for every source; the target
\* line occurs once and is the last line that is not empty.
C8_PlacementAtEnd ==
    (/\ editor_calls >= 1
     /\ out_content # None
     /\ ~HasCommentLine(Val(commit_content)))
    => LET c == Val(commit_content)
           out == Val(out_content)
       IN  /\ out = c \o <<"\n">> \o TargetLine \o <<"\n">>
           /\ Slice(out, 0, Len(c)) = c
           /\ LastNonEmptyLine(out) = TargetLine
           /\ Cardinality(Occurrences(out, TargetLine)) = 1

C8_Witness ==
    /\ editor_calls >= 1
    /\ commit_source = None
    /\ commit_content = Some(<<"a", "#">>)
    /\ out_content = Some(<<"a", "#", "\n">> \o TargetLine \o <<"\n">>)

\* C10: after a call with an eligible source the content (the updated
\* content, or the input when the call returned no change) has a whole line
\* that is exactly the target line, before every line beginning with #.
C10_TargetLineIsWholeLine ==
    (editor_calls >= 1 /\ commit_source \in EligibleSources) =>
        LET after == ContentAfter(Val(commit_content), out_content)
        IN  \E i \in 0..Len(after) :
                /\ WholeLineAt(after, TargetLine, i)
                /\ HasCommentLine(after) => i < FirstCommentOffset(after)

-----------------------------------------------------------------------------
(* Properties of the Ticket Resolver (SpecResolver) *)

\* C6: the result is the ticket of the first label, in the configured order,
\* that occurs in the branch name followed by "-" and a digit, at its
\* leftmost occurrence, with all the digits that follow; it is "not found"
\* exactly when no label occurs so.
C6_FirstLabelLeftmostMatch ==
    pc = "resolved" =>
        LET b == Val(branch)
            found == {n \in 1..Len(labels) : LabelOccurs(b, labels[n])}
        IN  /\ ticket = None <=> found = {}
            /\ found # {} =>
                   \E n \in found, i \in 0..Len(b), j \in 0..Len(b) :
                       /\ \A m \in found : n <= m
                       /\ TicketSpan(b, labels[n], i, j)
                       /\ \A h \in 0..(i - 1) : ~LabelOccursAt(b, labels[n], h)
                       /\ ticket = Some(Slice(b, i, j))
                       /\ Slice(b, i, i + Len(labels[n]) + 1) = labels[n] \o <<"-">>

C6_Witness ==
    /\ pc = "resolved"
    /\ labels = TICKET_LABELS
    /\ branch = Some(BAR \o <<"-", "1">> \o FOO \o <<"-", "2">>)
    /\ ticket = Some(FOO \o <<"-", "2">>)

====
